---- MODULE Spec2Model ----
(***************************************************************************)
(* GeoPal (server.js): the /api/location handler, the IP extraction and    *)
(* classification functions, and the database download / open / scheduled  *)
(* update choreography.                                                    *)
(*                                                                         *)
(* JavaScript strings are modelled as sequences of one-character strings,  *)
(* so that startsWith, substring, split, trim and the regular expressions  *)
(* of the source are computed character by character.                      *)
(***************************************************************************)
EXTENDS Integers, Sequences, FiniteSets, TLC

(***************************************************************************)
(* JavaScript values and string primitives                                 *)
(***************************************************************************)

\* JavaScript `undefined` for a string-valued slot (a header that is absent).
Undef == <<"undefined">>

\* JavaScript truthiness of a string-or-undefined value.
Truthy(s) == s # Undef /\ s # <<>>

\* a || b
OrElse(a, b) == IF Truthy(a) THEN a ELSE b

\* String.prototype.startsWith
StartsWith(s, p) == Len(s) >= Len(p) /\ SubSeq(s, 1, Len(p)) = p

\* String.prototype.substring(n)
Substring(s, n) == SubSeq(s, n + 1, Len(s))

Digits == {"0", "1", "2", "3", "4", "5", "6", "7", "8", "9"}
HexDigits == Digits \cup {"a", "b", "c", "d", "e", "f", "A", "B", "C", "D", "E", "F"}
AlnumChars == HexDigits \cup {"g", "h", "i", "l", "n", "o", "s", "t", "x", "z"}
Whitespace == {" ", "\t"}

AllIn(s, S) == \A i \in 1..Len(s) : s[i] \in S

\* Index of the first occurrence of character c in s, or 0.
RECURSIVE IndexFrom(_, _, _)
IndexFrom(s, c, i) ==
  IF i > Len(s) THEN 0
  ELSE IF s[i] = c THEN i
  ELSE IndexFrom(s, c, i + 1)

IndexOf(s, c) == IndexFrom(s, c, 1)

\* String.prototype.split(c) for a one-character separator.
RECURSIVE Split(_, _)
Split(s, c) ==
  LET i == IndexOf(s, c)
  IN IF i = 0 THEN <<s>>
     ELSE <<SubSeq(s, 1, i - 1)>> \o Split(SubSeq(s, i + 1, Len(s)), c)

RECURSIVE TrimLeft(_)
TrimLeft(s) ==
  IF s # <<>> /\ s[1] \in Whitespace THEN TrimLeft(Tail(s)) ELSE s

RECURSIVE TrimRight(_)
TrimRight(s) ==
  IF s # <<>> /\ s[Len(s)] \in Whitespace
  THEN TrimRight(SubSeq(s, 1, Len(s) - 1)) ELSE s

\* String.prototype.trim
Trim(s) == TrimRight(TrimLeft(s))

(***************************************************************************)
(* isValidIp: the two regular expressions of server.js                     *)
(***************************************************************************)

\* (25[0-5]|2[0-4][0-9]|[01]?[0-9][0-9]?)
IsOctet4(s) ==
  /\ Len(s) \in 1..3
  /\ AllIn(s, Digits)
  /\ Len(s) = 3 =>
       \/ s[1] \in {"0", "1"}
       \/ s[1] = "2" /\ s[2] \in {"0", "1", "2", "3", "4"}
       \/ s[1] = "2" /\ s[2] = "5" /\ s[3] \in {"0", "1", "2", "3", "4", "5"}

\* ipv4Regex
MatchesIpv4Regex(s) ==
  LET parts == Split(s, ".")
  IN Len(parts) = 4 /\ \A i \in 1..4 : IsOctet4(parts[i])

\* (25[0-5]|(2[0-4]|1{0,1}[0-9]){0,1}[0-9]) : the octet of an embedded IPv4
IsOctet6(s) ==
  /\ Len(s) \in 1..3
  /\ AllIn(s, Digits)
  /\ Len(s) = 3 =>
       \/ s[1] = "1"
       \/ s[1] = "2" /\ s[2] \in {"0", "1", "2", "3", "4"}
       \/ s[1] = "2" /\ s[2] = "5" /\ s[3] \in {"0", "1", "2", "3", "4", "5"}

\* ((25[0-5]|...)\.){3}(25[0-5]|...)
IsEmbeddedIpv4(s) ==
  LET parts == Split(s, ".")
  IN Len(parts) = 4 /\ \A i \in 1..4 : IsOctet6(parts[i])

\* [0-9a-fA-F]{1,4}
IsHexGroup(s) == Len(s) \in 1..4 /\ AllIn(s, HexDigits)

\* A run of n >= 0 hex groups separated by single colons ("" for n = 0):
\* the number of groups, or -1 when s is no such run.
GroupCount(s) ==
  IF s = <<>> THEN 0
  ELSE LET parts == Split(s, ":")
       IN IF \A i \in 1..Len(parts) : IsHexGroup(parts[i]) THEN Len(parts) ELSE -1

\* Index of the first "::" in s, or 0.
RECURSIVE DoubleColonFrom(_, _)
DoubleColonFrom(s, i) ==
  IF i >= Len(s) THEN 0
  ELSE IF s[i] = ":" /\ s[i + 1] = ":" THEN i
  ELSE DoubleColonFrom(s, i + 1)

\* Alternatives 1 to 9 of ipv6Regex: the pure hexadecimal forms. With a
\* groups before "::" and b groups after it, the alternatives admit
\*   (h:){7}h                         8 groups and no "::"
\*   (h:){1,7}:                       a in 1..7, b = 0
\*   (h:){1,6}:h ... (h:){1,2}(:h){1,5}   a >= 1, b >= 1, a + b <= 7
\*   h:((:h){1,6})                    a = 1, b in 1..6
\*   :((:h){1,7}|:)                   a = 0, b in 0..7
MatchesIpv6Hex(s) ==
  LET d == DoubleColonFrom(s, 1)
  IN IF d = 0 THEN GroupCount(s) = 8
     ELSE LET a == GroupCount(SubSeq(s, 1, d - 1))
              b == GroupCount(SubSeq(s, d + 2, Len(s)))
          IN /\ a >= 0
             /\ b >= 0
             /\ \/ a = 0 /\ b <= 7
                \/ a >= 1 /\ a <= 7 /\ b = 0
                \/ a >= 1 /\ b >= 1 /\ a + b <= 7

\* fe80:(:[0-9a-fA-F]{0,4}){0,4}%[0-9a-zA-Z]{1,}
MatchesIpv6Zone(s) ==
  LET p == IndexOf(s, "%")
      left == SubSeq(s, 1, p - 1)
      zone == SubSeq(s, p + 1, Len(s))
      rest == Substring(left, 5)
      segs == Split(rest, ":")
  IN /\ p > 0
     /\ zone # <<>>
     /\ AllIn(zone, AlnumChars)
     /\ StartsWith(left, <<"f", "e", "8", "0", ":">>)
     /\ \/ rest = <<>>
        \/ /\ segs[1] = <<>>
           /\ Len(segs) - 1 <= 4
           /\ \A i \in 2..Len(segs) : Len(segs[i]) <= 4 /\ AllIn(segs[i], HexDigits)

\* ::(ffff(:0{1,4}){0,1}:){0,1}<embedded IPv4>
MatchesIpv6Mapped(s) ==
  /\ StartsWith(s, <<":", ":">>)
  /\ LET t == Substring(s, 2)
         parts == Split(t, ":")
         n == Len(parts)
     IN /\ IsEmbeddedIpv4(parts[n])
        /\ \/ n = 1
           \/ n = 2 /\ parts[1] = <<"f", "f", "f", "f">>
           \/ /\ n = 3
              /\ parts[1] = <<"f", "f", "f", "f">>
              /\ Len(parts[2]) \in 1..4
              /\ AllIn(parts[2], {"0"})

\* ([0-9a-fA-F]{1,4}:){1,4}:<embedded IPv4>
MatchesIpv6Embedded(s) ==
  LET d == DoubleColonFrom(s, 1)
      a == GroupCount(SubSeq(s, 1, d - 1))
  IN /\ d > 1
     /\ a \in 1..4
     /\ IsEmbeddedIpv4(SubSeq(s, d + 2, Len(s)))

\* ipv6Regex
MatchesIpv6Regex(s) ==
  \/ MatchesIpv6Hex(s)
  \/ MatchesIpv6Zone(s)
  \/ MatchesIpv6Mapped(s)
  \/ MatchesIpv6Embedded(s)

\* isValidIp(ip)
isValidIp(ip) ==
  IF ~Truthy(ip) THEN FALSE
  ELSE MatchesIpv4Regex(ip) \/ MatchesIpv6Regex(ip)

\* cleanIp(ip)
cleanIp(ip) ==
  IF Truthy(ip) /\ StartsWith(ip, <<":", ":", "f", "f", "f", "f", ":">>)
  THEN Substring(ip, 7)
  ELSE ip

\* /^172\.(1[6-9]|2[0-9]|3[0-1])\./
Matches172Regex(ip) ==
  /\ Len(ip) >= 7
  /\ SubSeq(ip, 1, 4) = <<"1", "7", "2", ".">>
  /\ \/ ip[5] = "1" /\ ip[6] \in {"6", "7", "8", "9"}
     \/ ip[5] = "2" /\ ip[6] \in Digits
     \/ ip[5] = "3" /\ ip[6] \in {"0", "1"}
  /\ ip[7] = "."

\* isPrivateIp(ip)
isPrivateIp(ip) ==
  IF ~Truthy(ip) THEN FALSE
  ELSE \/ ip = <<"1", "2", "7", ".", "0", ".", "0", ".", "1">>
       \/ ip = <<":", ":", "1">>
       \/ ip = <<"l", "o", "c", "a", "l", "h", "o", "s", "t">>
       \/ StartsWith(ip, <<"1", "0", ".">>)
       \/ StartsWith(ip, <<"1", "9", "2", ".", "1", "6", "8", ".">>)
       \/ Matches172Regex(ip)
       \/ StartsWith(ip, <<"f", "d">>)
       \/ StartsWith(ip, <<"f", "e", "8", "0", ":">>)
       \/ StartsWith(ip, <<"f", "c">>)

(***************************************************************************)
(* Sample texts: addresses, header values and record fields                *)
(***************************************************************************)

Ip_8_8_8_8 == <<"8", ".", "8", ".", "8", ".", "8">>

Ip_8_8_4_4 == <<"8", ".", "8", ".", "4", ".", "4">>

Ip_1_1_1_1 == <<"1", ".", "1", ".", "1", ".", "1">>

Ip_9_9_9_9 == <<"9", ".", "9", ".", "9", ".", "9">>

Ip_203_0_113_7 == <<"2", "0", "3", ".", "0", ".", "1", "1", "3", ".", "7">>

Ip_169_254_1_1 == <<"1", "6", "9", ".", "2", "5", "4", ".", "1", ".", "1">>

Ip_10_5_5_5 == <<"1", "0", ".", "5", ".", "5", ".", "5">>

Ip_192_168_1_1 == <<"1", "9", "2", ".", "1", "6", "8", ".", "1", ".", "1">>

Ip_172_20_0_1 == <<"1", "7", "2", ".", "2", "0", ".", "0", ".", "1">>

Ip_172_15_0_1 == <<"1", "7", "2", ".", "1", "5", ".", "0", ".", "1">>

Ip_127_0_0_1 == <<"1", "2", "7", ".", "0", ".", "0", ".", "1">>

Ip_Loopback6 == <<":", ":", "1">>

Ip_fe80_1 == <<"f", "e", "8", "0", ":", ":", "1">>

Ip_fe90_1 == <<"f", "e", "9", "0", ":", ":", "1">>

Ip_fc00_1 == <<"f", "c", "0", "0", ":", ":", "1">>

Ip_fd00_1 == <<"f", "d", "0", "0", ":", ":", "1">>

Ip_2001_db == <<"2", "0", "0", "1", ":", "4", "8", "6", "0", ":", "4", "8", "6", "0", ":", ":", "8", "8", "8", "8">>

Ip_Mapped_8_8_8_8 == <<":", ":", "f", "f", "f", "f", ":", "8", ".", "8", ".", "8", ".", "8">>

Ip_Mapped_10_0_0_1 == <<":", ":", "f", "f", "f", "f", ":", "1", "0", ".", "0", ".", "0", ".", "1">>

Ip_Mapped_127_0_0_1 == <<":", ":", "f", "f", "f", "f", ":", "1", "2", "7", ".", "0", ".", "0", ".", "1">>

Ip_MappedPrefixOnly == <<":", ":", "f", "f", "f", "f", ":">>

Str_NotAnIp == <<"n", "o", "t", "-", "a", "n", "-", "i", "p">>

Str_999 == <<"9", "9", "9", ".", "1", ".", "1", ".", "1">>

Xff_Blank == <<" ">>

Xff_LeadingComma == <<",", "8", ".", "8", ".", "4", ".", "4">>

Xff_Chain == <<" ", "9", ".", "9", ".", "9", ".", "9", " ", ",", " ", "1", "0", ".", "0", ".", "0", ".", "1">>

Str_none == <<"n", "o", "n", "e">>

Str_US == <<"U", "S">>

Str_CA == <<"C", "A">>

Str_LA == <<"L", "A">>

Str_Org == <<"L", "a", "t", "i", "t", "u", "d", "e", ".", "s", "h">>

Str_396356 == <<"3", "9", "6", "3", "5", "6">>

Str_AS == <<"A", "S">>

Str_UnitedStates == <<"U", "n", "i", "t", "e", "d", " ", "S", "t", "a", "t", "e", "s">>

Str_California == <<"C", "a", "l", "i", "f", "o", "r", "n", "i", "a">>

Str_LosAngeles == <<"L", "o", "s", " ", "A", "n", "g", "e", "l", "e", "s">>

Str_90009 == <<"9", "0", "0", "0", "9">>

Str_TZ == <<"A", "m", "e", "r", "i", "c", "a", "/", "L", "o", "s", "_", "A", "n", "g", "e", "l", "e", "s">>

(***************************************************************************)
(* Bounds and value domains                                                *)
(***************************************************************************)

\* The database builds the provider may serve are v1 .. v<MaxVersion>.
MaxVersion == 2

\* The number of scheduled ticks that fire while the network and the file
\* system may fail.
MaxTicks == 1

\* The number of scheduled ticks that fire when nothing fails: two runs of
\* updateDatabases that overlap, and one that comes after them.
MaxOverlap == 3

VersionNames == <<"v1", "v2", "v3", "v4">>

Versions == {VersionNames[i] : i \in 1..MaxVersion}

\* The two database kinds (dbType of downloadDatabase).
Kinds == {"City", "ASN"}

\* Content of a path on disk: absent, a complete file of one build, or a
\* partial / mixed file.
NoFile == "absent"

Corrupt == "corrupt"

\* A lookup handle that was never assigned (let cityLookup = null).
Null == "null"

(***************************************************************************)
(* State                                                                   *)
(***************************************************************************)
VARIABLES
  licenseKey,   \* MAXMIND_LICENSE_KEY is set
  canon,        \* canon[k]: content of DATA_DIR/GeoLite2-<k>.mmdb
  tarFile,      \* tarFile[k]: content of DATA_DIR/GeoLite2-<k>.tar.gz
  exDir,        \* exDir[k]: the .mmdb inside DATA_DIR/GeoLite2-<k>_*/
  cityLookup,   \* the City handle: Null or the build it was opened from
  asnLookup,    \* the ASN handle
  pc,           \* pc[p]: position of process p (0: start(); 1..: cron ticks)
  dl,           \* dl[p]: position inside the running downloadDatabase call
  payload,      \* payload[p]: the build p's write stream is writing to tarPath
  opener,       \* opener[k]: the process whose stream opened k's tarPath last
  cityUpdated,  \* cityUpdated[p] of updateDatabases
  returned,     \* the downloadDatabase call that returned in the last step
  dlCalls,      \* dlCalls[k]: downloadDatabase(k) calls made by start()
  canon0,       \* the canonical files as start() found them
  listening,    \* app.listen has been called
  req,          \* the /api/location request handled last
  resp          \* and the response it was given

diskVars == <<canon, tarFile, exDir>>

handleVars == <<cityLookup, asnLookup>>

httpVars == <<req, resp>>

vars == <<licenseKey, canon, tarFile, exDir, cityLookup, asnLookup, pc, dl,
          payload, opener, cityUpdated, returned, dlCalls, canon0, listening,
          req, resp>>

\* No downloadDatabase call returned in the step.
NoReturn == [proc |-> -1, kind |-> "", outcome |-> "none"]

(***************************************************************************)
(* /api/location                                                           *)
(***************************************************************************)

\* getClientIp(req). connection.remoteAddress, socket.remoteAddress and
\* req.ip all read the transport peer address r.peer.
getClientIp(r) ==
  IF Truthy(r.cf) THEN r.cf
  ELSE IF Truthy(r.xff) THEN Trim(Split(r.xff, ",")[1])
  ELSE OrElse(OrElse(OrElse(r.xreal, r.peer), r.peer), r.peer)

\* An optional number is <<>> (undefined) or <<n>>;  x || 0
OrZero(x) == IF x = <<>> \/ x = <<0>> THEN <<0>> ELSE x

\* x || '' for a string
OrEmpty(x) == OrElse(x, <<>>)

\* autonomous_system_number || '' inside the template literal: the number
\* is held as its decimal text; 0 and undefined are falsy.
AsnNumberText(n) == IF n = Undef \/ n = <<"0">> THEN <<>> ELSE n

\* `AS${number || ''} ${organization || ''}`.trim()
AsLabel(asnData) ==
  Trim(Str_AS \o AsnNumberText(asnData.autonomous_system_number)
         \o <<" ">> \o OrEmpty(asnData.autonomous_system_organization))

\* The result object before any lookup: every optional field undefined.
EmptyResult ==
  [http |-> 200, status |-> "", message |-> "", query |-> Undef, note |-> FALSE,
   country |-> Undef, countryCode |-> Undef, region |-> Undef,
   regionName |-> Undef, city |-> Undef, zip |-> Undef, lat |-> <<>>,
   lon |-> <<>>, timezone |-> Undef, as |-> Undef, isp |-> Undef, org |-> Undef]

\* Lines 267-277: the City record's fields copied into the result.
MergeCity(result, cityData) ==
  [result EXCEPT
     !.country = OrEmpty(cityData.country_name),
     !.countryCode = OrEmpty(cityData.country_iso_code),
     !.region = OrEmpty(cityData.subdivision_iso_code),
     !.regionName = OrEmpty(cityData.subdivision_name),
     !.city = OrEmpty(cityData.city_name),
     !.zip = OrEmpty(cityData.postal_code),
     !.lat = OrZero(cityData.latitude),
     !.lon = OrZero(cityData.longitude),
     !.timezone = OrEmpty(cityData.time_zone)]

\* Lines 284-288: the ASN record's fields copied into the result.
MergeAsn(result, asnData) ==
  [result EXCEPT
     !.as = AsLabel(asnData),
     !.isp = OrEmpty(asnData.autonomous_system_organization),
     !.org = OrEmpty(asnData.autonomous_system_organization)]

MsgInvalid == "Invalid or missing IP address"

MsgPrivate == "Cannot geolocate private/local IP addresses"

MsgNotLoaded == "MaxMind databases not loaded. Please set MAXMIND_LICENSE_KEY environment variable."

MsgNoData == "No geolocation data found for this IP address"

MsgInternal == "Internal server error"

\* Lines 302-305: the test that decides between success and fail.
FoundAnyData(result) == Truthy(result.country) \/ Truthy(result.as)

\* Line 244 without the fallback: query: ip
InvalidQueryEcho(ip) == ip

\* Line 244: query: ip || 'none'
InvalidQuery(ip) == OrElse(ip, Str_none)

\* Lines 292-299 left out: the handler never reports missing databases.
DatabasesMissingNever(cl, al) == FALSE

\* Line 292: if (!cityLookup && !asnLookup)
DatabasesMissing(cl, al) == cl = Null /\ al = Null

\* What a lookup.get(ip) call does: it returns null, returns a record, or
\* throws. A handle that is null is not called ("skipped").
GetNull == [kind |-> "null"]

GetThrows == [kind |-> "throws"]

GetSkipped == [kind |-> "skipped"]

GetRecord(d) == [kind |-> "record", data |-> d]

\* The body of the /api/location handler, lines 234-315: the response for
\* request r with the handles cl and al installed, where cityGet and asnGet
\* are what the two get calls do.
LocationResponse(r, cl, al, cityGet, asnGet) ==
  LET ip == cleanIp(OrElse(r.qip, getClientIp(r)))
      internalError ==
        [EmptyResult EXCEPT !.http = 500, !.status = "error", !.message = MsgInternal]
      base == [EmptyResult EXCEPT !.status = "success", !.query = ip]
      withCity ==
        IF cl # Null /\ cityGet.kind = "record" THEN MergeCity(base, cityGet.data)
        ELSE base
      withAsn ==
        IF al # Null /\ asnGet.kind = "record" THEN MergeAsn(withCity, asnGet.data)
        ELSE withCity
  IN IF ~isValidIp(ip)
     THEN [EmptyResult EXCEPT !.status = "fail", !.message = MsgInvalid,
                              !.query = InvalidQuery(ip)]
     ELSE IF isPrivateIp(ip)
     THEN [EmptyResult EXCEPT !.status = "fail", !.message = MsgPrivate,
                              !.query = ip, !.note = TRUE]
     ELSE IF cl # Null /\ cityGet.kind = "throws" THEN internalError
     ELSE IF al # Null /\ asnGet.kind = "throws" THEN internalError
     ELSE IF DatabasesMissing(cl, al)
     THEN [EmptyResult EXCEPT !.status = "fail", !.query = ip, !.message = MsgNotLoaded]
     ELSE IF ~FoundAnyData(withAsn)
     THEN [withAsn EXCEPT !.status = "fail", !.message = MsgNoData]
     ELSE withAsn

\* City records a City database may return (the fields the handler reads).
CityRecordFull ==
  [country_name |-> Str_UnitedStates, country_iso_code |-> Str_US,
   subdivision_iso_code |-> Str_CA, subdivision_name |-> Str_California,
   city_name |-> Str_LosAngeles, postal_code |-> Str_90009,
   latitude |-> <<34>>, longitude |-> <<-118>>, time_zone |-> Str_TZ]

\* A record that carries a location and a city but no country.
CityRecordNoCountry ==
  [country_name |-> Undef, country_iso_code |-> Undef,
   subdivision_iso_code |-> Undef, subdivision_name |-> Undef,
   city_name |-> Str_LosAngeles, postal_code |-> Undef,
   latitude |-> <<34>>, longitude |-> <<-118>>, time_zone |-> Str_TZ]

\* A record with none of the fields the handler reads.
CityRecordBare ==
  [country_name |-> Undef, country_iso_code |-> Undef,
   subdivision_iso_code |-> Undef, subdivision_name |-> Undef,
   city_name |-> Undef, postal_code |-> Undef,
   latitude |-> <<>>, longitude |-> <<>>, time_zone |-> Undef]

CityGets ==
  {GetNull, GetThrows, GetRecord(CityRecordFull), GetRecord(CityRecordNoCountry),
   GetRecord(CityRecordBare)}

AsnRecordFull ==
  [autonomous_system_number |-> Str_396356, autonomous_system_organization |-> Str_Org]

\* A record of a network whose organization is not known.
AsnRecordNumberOnly ==
  [autonomous_system_number |-> Str_396356, autonomous_system_organization |-> Undef]

AsnGets == {GetNull, GetThrows, GetRecord(AsnRecordFull), GetRecord(AsnRecordNumberOnly)}

\* A request: the ip query parameter, the three headers, the peer address.
Request(q, c, x, xr, p) == [qip |-> q, cf |-> c, xff |-> x, xreal |-> xr, peer |-> p]

QuerySamples ==
  {Ip_8_8_8_8, Ip_2001_db, Ip_169_254_1_1, Ip_10_5_5_5, Ip_192_168_1_1,
   Ip_172_20_0_1, Ip_172_15_0_1, Ip_127_0_0_1, Ip_Loopback6, Ip_fe80_1,
   Ip_fe90_1, Ip_fc00_1, Ip_fd00_1, Ip_Mapped_8_8_8_8, Ip_Mapped_10_0_0_1,
   Ip_MappedPrefixOnly, Str_NotAnIp, Str_999}

Requests ==
  {Request(q, Undef, Undef, Undef, Ip_Mapped_127_0_0_1) : q \in QuerySamples}
  \cup {Request(q, Ip_1_1_1_1, Xff_Chain, Ip_8_8_4_4, Ip_203_0_113_7) :
          q \in {Ip_8_8_8_8, Ip_10_5_5_5, Str_NotAnIp}}
  \cup {Request(q, c, x, xr, p) :
          q \in {Undef, <<>>},
          c \in {Undef, <<>>, Ip_1_1_1_1},
          x \in {Undef, Xff_Blank, Xff_LeadingComma, Xff_Chain},
          xr \in {Undef, Ip_8_8_4_4},
          p \in {Undef, Ip_Mapped_127_0_0_1, Ip_203_0_113_7}}

\* The requests issued while the databases are being refreshed.
ProbeRequests ==
  {Request(Ip_8_8_8_8, Undef, Undef, Undef, Ip_Mapped_127_0_0_1)}

NoRequest == [r |-> Request(Undef, Undef, Undef, Undef, Undef),
              cityGet |-> GetSkipped, asnGet |-> GetSkipped,
              cityHandle |-> Null, asnHandle |-> Null, served |-> FALSE]

\* Lines 236-237: the address the handler works on.
CandidateOf(r) == cleanIp(OrElse(r.qip, getClientIp(r)))

\* One GET /api/location, handled to completion (the handler is synchronous:
\* it contains no await, so nothing interleaves with it). The get calls are
\* reached only for a valid, non-private address and a handle that is set.
\* CG and AG are the things the two get calls may do.
Locate(R, CG, AG) ==
  /\ listening
  /\ \E r \in R :
       LET ip == cleanIp(OrElse(r.qip, getClientIp(r)))
           reached == isValidIp(ip) /\ ~isPrivateIp(ip)
       IN \E cg \in (IF reached /\ cityLookup # Null THEN CG ELSE {GetSkipped}) :
            \E ag \in (IF reached /\ asnLookup # Null /\ cg.kind # "throws"
                       THEN AG ELSE {GetSkipped}) :
              /\ req' = [r |-> r, cityGet |-> cg, asnGet |-> ag,
                         cityHandle |-> cityLookup, asnHandle |-> asnLookup,
                         served |-> TRUE]
              /\ resp' = LocationResponse(r, cityLookup, asnLookup, cg, ag)
  /\ returned' = NoReturn
  /\ UNCHANGED <<licenseKey, diskVars, handleVars, pc, dl, payload, opener, cityUpdated,
                 dlCalls, canon0, listening>>

(***************************************************************************)
(* downloadDatabase, initDatabases, updateDatabases, start                 *)
(*                                                                         *)
(* Process 0 is start(); processes 1..MaxOverlap are the runs of           *)
(* updateDatabases that cron.schedule starts, one per tick, whether or not *)
(* the run of the tick before has returned. A process moves from one await *)
(* to the next in one step. The actions take `faulty`: whether the network *)
(* and the file system may fail in the step.                               *)
(***************************************************************************)
Procs == 0..MaxOverlap

TickProcs == 1..MaxOverlap

\* The dbType of the downloadDatabase call made at position pcv.
KindAt(pcv) == IF pcv \in {"init_city", "upd_city"} THEN "City" ELSE "ASN"

\* An archive that extracts well but holds no GeoLite2-<k>_*/GeoLite2-<k>.mmdb.
NoDbArchive == "nodb"

Payloads(faulty) == IF faulty THEN Versions \cup {NoDbArchive} ELSE Versions

\* An archive of build v that is not whole (still being written, left with
\* a hole, or overwritten in part by a stream of another build), and the
\* directory that extracting a part of such an archive leaves.
PartialNames == <<"v1~", "v2~", "v3~", "v4~">>

PartialNoDb == "nodb~"

IsPartial(x) == x = PartialNoDb \/ \E i \in 1..Len(PartialNames) : PartialNames[i] = x

Partial(v) ==
  IF v = NoDbArchive THEN PartialNoDb
  ELSE PartialNames[CHOOSE i \in 1..Len(VersionNames) : VersionNames[i] = v]

\* The build an archive or an extracted directory belongs to: it names the
\* directory GeoLite2-<k>_<build date>.
BuildOf(x) ==
  IF x = PartialNoDb THEN NoDbArchive
  ELSE IF IsPartial(x)
  THEN VersionNames[CHOOSE i \in 1..Len(PartialNames) : PartialNames[i] = x]
  ELSE x

ToPartial(x) == IF IsPartial(x) THEN x ELSE Partial(x)

\* The .mmdb that copyFileSync reads from extracted directory d.
ContentOf(d) == IF IsPartial(d) THEN Corrupt ELSE d

\* p is inside downloadDatabase(k), between createWriteStream and 'finish'.
Writing(p, k) == dl[p] = "write" /\ KindAt(pc[p]) = k

\* No stream has tarPath open.
NoOpener == -1

\* Where the caller continues when downloadDatabase returns: initDatabases
\* lines 114-122, updateDatabases lines 146-154.
PcAfterDownload(pcv, wasCityUpdated, out) ==
  CASE pcv = "init_city" -> "init_asn"
    [] pcv = "init_asn" -> "open_city"
    [] pcv = "upd_city" -> "upd_asn"
    [] pcv = "upd_asn" ->
         IF wasCityUpdated \/ out = "Downloaded" THEN "init_city" ELSE "done"

\* downloadDatabase returns: true for Downloaded, false for the rest.
\* (cityUpdated is read for the last time at line 150.)
AfterDownload(p, out) ==
  /\ returned' = [proc |-> p, kind |-> KindAt(pc[p]), outcome |-> out]
  /\ pc' = [pc EXCEPT ![p] = PcAfterDownload(pc[p], cityUpdated[p], out)]
  /\ dl' = [dl EXCEPT ![p] = IF pc[p] = "upd_city" THEN "call" ELSE "idle"]
  /\ cityUpdated' = [cityUpdated EXCEPT ![p] =
       IF pc[p] = "upd_city" THEN out = "Downloaded"
       ELSE IF pc[p] = "upd_asn" THEN FALSE ELSE @]

\* Lines 114 and 117 without the existsSync test: always download.
NeedsDownloadAlways(c) == TRUE

\* Lines 114 and 117: does initDatabases download kind k, whose canonical
\* file has content c?
NeedsDownload(c) == c = NoFile

\* Lines 114 and 117: if (!fs.existsSync(path)) await downloadDatabase(k)
InitCheck(p) ==
  /\ pc[p] \in {"init_city", "init_asn"}
  /\ dl[p] = "idle"
  /\ IF NeedsDownload(canon[KindAt(pc[p])])
     THEN /\ dl' = [dl EXCEPT ![p] = "call"]
          /\ pc' = pc
     ELSE /\ pc' = [pc EXCEPT ![p] = IF pc[p] = "init_city" THEN "init_asn" ELSE "open_city"]
          /\ dl' = dl
  /\ returned' = NoReturn
  /\ UNCHANGED <<licenseKey, diskVars, handleVars, payload, opener, cityUpdated,
                 dlCalls, canon0, listening, httpVars>>

\* Lines 43-59: the credential check, then the request is sent.
DlCall(p) ==
  /\ dl[p] = "call"
  /\ dlCalls' = IF p = 0 THEN [dlCalls EXCEPT ![KindAt(pc[p])] = @ + 1] ELSE dlCalls
  /\ IF ~licenseKey
     THEN AfterDownload(p, "SkippedNoCredential")
     ELSE /\ dl' = [dl EXCEPT ![p] = "request"]
          /\ returned' = NoReturn
          /\ UNCHANGED <<pc, cityUpdated>>
  /\ UNCHANGED <<licenseKey, diskVars, handleVars, payload, opener, canon0, listening,
                 httpVars>>

\* Lines 55-62 and 97-104: the request fails (401, or anything else), or
\* the response arrives and createWriteStream opens tarPath for writing.
\* tarPath (line 50) is the same path for every call of one kind: opening
\* it truncates the file under any stream that is still writing it, and
\* the file from then on starts with the bytes of the stream that opened
\* it last.
DlResponse(p, faulty) ==
  LET k == KindAt(pc[p])
  IN /\ dl[p] = "request"
     /\ \/ /\ faulty
           /\ \E out \in {"SkippedUnauthorized", "FailedTransient"} : AfterDownload(p, out)
           /\ UNCHANGED <<diskVars, payload, opener>>
        \/ \E v \in Payloads(faulty) :
             /\ tarFile' = [tarFile EXCEPT ![k] = Partial(v)]
             /\ payload' = [payload EXCEPT ![p] = v]
             /\ opener' = [opener EXCEPT ![k] = p]
             /\ dl' = [dl EXCEPT ![p] = "write"]
             /\ returned' = NoReturn
             /\ UNCHANGED <<canon, exDir, pc, cityUpdated>>
     /\ UNCHANGED <<licenseKey, handleVars, dlCalls, canon0, listening, httpVars>>

\* What is found at tarPath when the stream of p, which wrote build b, has
\* written its last byte. t is the content before that byte, isOpener says
\* that no stream opened the path after p's, openerWrites that the stream
\* that opened it last is still writing, and foreign that another build's
\* stream is still writing.
\*  - The path was unlinked meanwhile: p wrote to a file without a name.
\*  - p's stream opened the path last: the archive is whole, unless a
\*    stream of another build put bytes on top of p's.
\*  - A stream of the same build opened it later: that stream's bytes are
\*    p's bytes; until it has finished, the file has a hole between its
\*    position and the place p's stream went on from.
\*  - A stream of another build opened it later: p's last bytes lie on top
\*    of that build's archive.
ArchivesLeft(t, b, isOpener, openerWrites, foreign) ==
  IF t = NoFile THEN {NoFile}
  ELSE IF isOpener THEN (IF foreign THEN {b, Partial(b)} ELSE {b})
  ELSE IF BuildOf(t) = b THEN (IF openerWrites THEN {ToPartial(t)} ELSE {t})
  ELSE {ToPartial(t)}

\* Lines 64-67: the write stream finishes or fails.
DlWritten(p, faulty) ==
  LET k == KindAt(pc[p])
      others == {q \in Procs \ {p} : Writing(q, k)}
      left == ArchivesLeft(tarFile[k], payload[p], opener[k] = p,
                           opener[k] \in others,
                           \E q \in others : payload[q] # payload[p])
  IN /\ dl[p] = "write"
     /\ \/ /\ \E t \in left : tarFile' = [tarFile EXCEPT ![k] = t]
           /\ dl' = [dl EXCEPT ![p] = "extract"]
           /\ returned' = NoReturn
           /\ UNCHANGED <<pc, cityUpdated>>
        \/ /\ faulty
           /\ AfterDownload(p, "FailedTransient")
           /\ UNCHANGED tarFile
     /\ payload' = [payload EXCEPT ![p] = NoFile]
     /\ opener' = [opener EXCEPT ![k] = IF @ = p THEN NoOpener ELSE @]
     /\ UNCHANGED <<licenseKey, canon, exDir, handleVars, dlCalls, canon0, listening,
                    httpVars>>

\* The points of lines 72-93 at which an exception can be raised.
FailPoints(faulty) ==
  IF faulty THEN {"none", "extract", "copy", "rm", "unlink"} ELSE {"none"}

\* What a failing write leaves behind: the target as it was, no target, or
\* a partial target. (fs.copyFileSync gives no atomicity: on an error after
\* the destination was opened it tries to remove the destination.)
Damages == {"clean", "removed", "partial"}

Damaged(content, damage) ==
  CASE damage = "clean" -> content
    [] damage = "removed" -> NoFile
    [] damage = "partial" -> Corrupt

\* Line 72 when tar.x throws on archive t: it has extracted nothing, or a
\* part of the directory of t's build (over a directory of the same name,
\* or next to an older one, which is then lost sight of).
PartlyExtracted(t, e, damage) ==
  IF damage = "clean" \/ BuildOf(t) = NoDbArchive THEN e ELSE Partial(BuildOf(t))

\* Lines 78-79: the directories files.find can return once the archive of
\* build t has been extracted while extracted directory e was there. A
\* directory of the same build has the same name and is overwritten; one of
\* another build stays, its name starts with GeoLite2-<k>_ as well, and
\* readdirSync fixes no order.
LocatedDirs(t, e) ==
  (IF t = NoDbArchive THEN {} ELSE {t})
    \cup (IF e = NoFile \/ BuildOf(e) = t THEN {} ELSE {e})

\* Lines 72-105: tar.x, then the synchronous tail (locate the extracted
\* directory, copy the .mmdb over the canonical path, remove the directory,
\* unlink the archive), with the catch block. c, t, e are the contents of
\* the canonical file, the archive and the extracted directory before;
\* `fail` is the call that throws, `damage` what it leaves behind, and
\* `found` the directory files.find returns. The result is
\* <<canon[k], tarFile[k], exDir[k], outcome>> afterwards.
ExtractAndInstall(c, t, e, fail, damage, found) ==
  IF t = NoFile THEN <<c, t, e, "FailedTransient">>
  ELSE IF IsPartial(t) \/ fail = "extract"
  THEN <<c, t, PartlyExtracted(t, e, damage), "FailedTransient">>
  ELSE LET dirs == LocatedDirs(t, e)
           other == IF dirs \ {found} = {} THEN NoFile
                    ELSE CHOOSE d \in dirs \ {found} : TRUE
           kept == IF t = NoDbArchive \/ found = t THEN found ELSE e
       IN IF dirs = {}
          THEN IF fail = "unlink" THEN <<c, t, e, "FailedTransient">>
               ELSE <<c, NoFile, e, "Downloaded">>
          ELSE IF fail = "copy" THEN <<Damaged(c, damage), t, kept, "FailedTransient">>
          ELSE IF fail = "rm" THEN <<ContentOf(found), t, kept, "FailedTransient">>
          ELSE IF fail = "unlink" THEN <<ContentOf(found), t, other, "FailedTransient">>
          ELSE <<ContentOf(found), NoFile, other, "Downloaded">>

DlExtracted(p, faulty) ==
  LET k == KindAt(pc[p])
      dirs == LocatedDirs(tarFile[k], exDir[k])
  IN /\ dl[p] = "extract"
     /\ \E fail \in FailPoints(faulty), damage \in Damages :
          \E found \in (IF dirs = {} THEN {NoFile} ELSE dirs) :
            LET r == ExtractAndInstall(canon[k], tarFile[k], exDir[k], fail, damage, found)
            IN /\ canon' = [canon EXCEPT ![k] = r[1]]
               /\ tarFile' = [tarFile EXCEPT ![k] = r[2]]
               /\ exDir' = [exDir EXCEPT ![k] = r[3]]
               /\ AfterDownload(p, r[4])
     /\ UNCHANGED <<licenseKey, handleVars, payload, opener, dlCalls, canon0, listening,
                    httpVars>>

\* An open that gives no handle (null) instead of throwing when the file is
\* corrupt or cannot be read.
OpenResultNull(content, unreadable) ==
  IF content = Corrupt \/ unreadable THEN Null ELSE content

\* maxmind.open(path): the handle of the file's build, or an exception when
\* the file is corrupt or cannot be read.
OpenResult(content, unreadable) ==
  IF content = Corrupt \/ unreadable THEN "throws" ELSE content

\* Line 123: cityLookup = await maxmind.open(CITY_DB_PATH), where `old` is
\* the handle installed before and `opened` what open returned.
SwapHandle(old, opened) == opened

\* Where initDatabases goes after the City open: on to the ASN open, or,
\* when the open threw, through the catch block of lines 135-137 and out.
PcAfterCityOpen(p, threw) ==
  IF threw THEN (IF p = 0 THEN "init_done" ELSE "done") ELSE "open_asn"

\* Lines 122-127 and 135-137: the City file is opened if it exists.
OpenCity(p, faulty) ==
  /\ pc[p] = "open_city"
  /\ IF canon["City"] = NoFile
     THEN /\ pc' = [pc EXCEPT ![p] = PcAfterCityOpen(p, FALSE)]
          /\ UNCHANGED cityLookup
     ELSE \E unreadable \in {FALSE, faulty} :
            LET h == OpenResult(canon["City"], unreadable)
            IN IF h = "throws"
               THEN /\ pc' = [pc EXCEPT ![p] = PcAfterCityOpen(p, TRUE)]
                    /\ UNCHANGED cityLookup
               ELSE /\ cityLookup' = SwapHandle(cityLookup, h)
                    /\ pc' = [pc EXCEPT ![p] = PcAfterCityOpen(p, FALSE)]
  /\ returned' = NoReturn
  /\ UNCHANGED <<licenseKey, diskVars, asnLookup, dl, payload, opener, cityUpdated,
                 dlCalls, canon0, listening, httpVars>>

\* Lines 129-137: the ASN file is opened if it exists.
OpenAsn(p, faulty) ==
  /\ pc[p] = "open_asn"
  /\ pc' = [pc EXCEPT ![p] = IF p = 0 THEN "init_done" ELSE "done"]
  /\ IF canon["ASN"] = NoFile
     THEN UNCHANGED asnLookup
     ELSE \E unreadable \in {FALSE, faulty} :
            LET h == OpenResult(canon["ASN"], unreadable)
            IN IF h = "throws" THEN UNCHANGED asnLookup
               ELSE asnLookup' = SwapHandle(asnLookup, h)
  /\ returned' = NoReturn
  /\ UNCHANGED <<licenseKey, diskVars, cityLookup, dl, payload, opener, cityUpdated,
                 dlCalls, canon0, listening, httpVars>>

\* start() may register the cron job and listen when it is at position pcv.
StartReady(pcv) == pcv = "init_done"

\* Lines 349-367: once initDatabases has returned, start() registers the
\* cron job and calls app.listen. (dlCalls and canon0 describe the startup
\* and are kept until this step.)
Listen ==
  /\ StartReady(pc[0])
  /\ ~listening
  /\ pc' = [pc EXCEPT ![0] = "done"]
  /\ listening' = TRUE
  /\ dlCalls' = [k \in Kinds |-> 0]
  /\ canon0' = [k \in Kinds |-> NoFile]
  /\ returned' = NoReturn
  /\ UNCHANGED <<licenseKey, diskVars, handleVars, dl, payload, opener, cityUpdated, httpVars>>

\* Line 353: a tick of the schedule starts updateDatabases (lines 143-146).
\* cron.schedule starts a run at every tick, whether or not the run of an
\* earlier tick has returned; `limit` is the number of ticks that fire.
Tick(p, limit) ==
  /\ p \in TickProcs
  /\ p <= limit
  /\ listening
  /\ pc[p] = "idle"
  /\ p = 1 \/ pc[p - 1] # "idle"
  /\ pc' = [pc EXCEPT ![p] = "upd_city"]
  /\ dl' = [dl EXCEPT ![p] = "call"]
  /\ returned' = NoReturn
  /\ UNCHANGED <<licenseKey, diskVars, handleVars, payload, opener, cityUpdated,
                 dlCalls, canon0, listening, httpVars>>

(***************************************************************************)
(* Specifications                                                          *)
(***************************************************************************)

\* The files a data directory may hold when the process starts.
StartContents == {NoFile, Corrupt, "v1"}

\* The state after the module has loaded (lines 22-37), before start(),
\* with the canonical files drawn from S.
InitWith(S) ==
  /\ licenseKey \in BOOLEAN
  /\ canon \in [Kinds -> S]
  /\ canon0 = canon
  /\ tarFile = [k \in Kinds |-> NoFile]
  /\ exDir = [k \in Kinds |-> NoFile]
  /\ cityLookup = Null
  /\ asnLookup = Null
  /\ pc = [p \in Procs |-> IF p = 0 THEN "init_city" ELSE "idle"]
  /\ dl = [p \in Procs |-> "idle"]
  /\ payload = [p \in Procs |-> NoFile]
  /\ opener = [k \in Kinds |-> NoOpener]
  /\ cityUpdated = [p \in Procs |-> FALSE]
  /\ returned = NoReturn
  /\ dlCalls = [k \in Kinds |-> 0]
  /\ listening = FALSE
  /\ req = NoRequest
  /\ resp = EmptyResult

Init == InitWith(StartContents)

\* The refresh steps of process p.
Refresh(p, faulty, limit) ==
  \/ InitCheck(p)
  \/ DlCall(p)
  \/ DlResponse(p, faulty)
  \/ DlWritten(p, faulty)
  \/ DlExtracted(p, faulty)
  \/ OpenCity(p, faulty)
  \/ OpenAsn(p, faulty)
  \/ Tick(p, limit)

\* The service with a network and a file system that may fail: startup,
\* then the scheduled ticks, and requests for a public address at any
\* moment, answered from whichever handles are installed.
Next ==
  \/ \E p \in Procs : Refresh(p, TRUE, MaxTicks)
  \/ Listen
  \/ Locate(ProbeRequests, {GetRecord(CityRecordFull)}, {GetRecord(AsnRecordFull)})

Spec == Init /\ [][Next]_vars

\* The refresh choreography with ticks that come while earlier runs have
\* not returned, a credential, a network and a file system that never fail,
\* and a data directory that holds both databases, whole: whatever goes
\* wrong here comes from the interleaving of the runs.
InitNoFault == InitWith({"v1"}) /\ licenseKey

NextNoFault ==
  \/ \E p \in Procs : Refresh(p, FALSE, MaxOverlap)
  \/ Listen

SpecNoFault == InitNoFault /\ [][NextNoFault]_vars

\* start() alone, with a network and a file system that may fail: the
\* startup pass of initDatabases, the listen call, and the requests answered
\* from then on while no scheduled tick has fired yet.
NextStartup ==
  \/ InitCheck(0)
  \/ DlCall(0)
  \/ DlResponse(0, TRUE)
  \/ DlWritten(0, TRUE)
  \/ DlExtracted(0, TRUE)
  \/ OpenCity(0, TRUE)
  \/ OpenAsn(0, TRUE)
  \/ Listen
  \/ Locate(ProbeRequests, {GetRecord(CityRecordFull)}, {GetRecord(AsnRecordFull)})

SpecStartup == Init /\ [][NextStartup]_vars

\* The serving states: start() has returned, without a credential, so each
\* handle is that of the canonical file start() found, if it could open it.
InitServing ==
  /\ licenseKey = FALSE
  /\ canon \in [Kinds -> StartContents]
  /\ canon0 = [k \in Kinds |-> NoFile]
  /\ tarFile = [k \in Kinds |-> NoFile]
  /\ exDir = [k \in Kinds |-> NoFile]
  /\ cityLookup = IF canon["City"] \in Versions THEN canon["City"] ELSE Null
  /\ asnLookup = IF canon["City"] # Corrupt /\ canon["ASN"] \in Versions
                 THEN canon["ASN"] ELSE Null
  /\ pc = [p \in Procs |-> IF p = 0 THEN "done" ELSE "idle"]
  /\ dl = [p \in Procs |-> "idle"]
  /\ payload = [p \in Procs |-> NoFile]
  /\ opener = [k \in Kinds |-> NoOpener]
  /\ cityUpdated = [p \in Procs |-> FALSE]
  /\ returned = NoReturn
  /\ dlCalls = [k \in Kinds |-> 0]
  /\ listening = TRUE
  /\ req = NoRequest
  /\ resp = EmptyResult

\* Requests of every sample kind against the serving states.
NextLocate == ~req.served /\ Locate(Requests, CityGets, AsnGets)

SpecLocate == InitServing /\ [][NextLocate]_vars

(***************************************************************************)
(* Properties of /api/location (checked under SpecLocate)                  *)
(***************************************************************************)

\* The request handled last was for a valid address that is not rejected as
\* private, so the handler went on to the lookups.
ReachedLookups(q) == isValidIp(CandidateOf(q.r)) /\ ~isPrivateIp(CandidateOf(q.r))

\* A get call returned a City record with at least one of the fields the
\* result carries.
CityContributes(g) ==
  /\ g.kind = "record"
  /\ \/ Truthy(g.data.country_name)
     \/ Truthy(g.data.country_iso_code)
     \/ Truthy(g.data.subdivision_iso_code)
     \/ Truthy(g.data.subdivision_name)
     \/ Truthy(g.data.city_name)
     \/ Truthy(g.data.postal_code)
     \/ g.data.latitude # <<>>
     \/ g.data.longitude # <<>>
     \/ Truthy(g.data.time_zone)

\* A get call returned an ASN record with a number or an organization.
AsnContributes(g) ==
  /\ g.kind = "record"
  /\ \/ Truthy(g.data.autonomous_system_number)
     \/ Truthy(g.data.autonomous_system_organization)

\* C1: for a valid public address queried while at least one database is
\* loaded (and no lookup throws), the status is success exactly when the
\* City or the ASN lookup contributed a non-empty field, and otherwise the
\* response is the fail response with the no-data message.
C1_SuccessIffFieldContributed ==
  LET contributed == CityContributes(req.cityGet) \/ AsnContributes(req.asnGet)
  IN (/\ req.served
      /\ ReachedLookups(req)
      /\ req.cityHandle # Null \/ req.asnHandle # Null
      /\ resp.http = 200)
     => /\ resp.status = "success" <=> contributed
        /\ ~contributed => resp.status = "fail" /\ resp.message = MsgNoData

\* The first non-empty value of a sequence of optional strings.
RECURSIVE FirstNonEmpty(_)
FirstNonEmpty(vals) ==
  IF vals = <<>> THEN Undef
  ELSE IF Truthy(Head(vals)) THEN Head(vals)
  ELSE FirstNonEmpty(Tail(vals))

\* The first comma-separated entry of X-Forwarded-For, trimmed.
XffFirstEntry(x) == IF Truthy(x) THEN Trim(Split(x, ",")[1]) ELSE Undef

\* The candidate by the documented order: query parameter, CF-Connecting-IP,
\* first X-Forwarded-For entry, X-Real-IP, peer address.
DocumentedCandidate(r) ==
  FirstNonEmpty(<<r.qip, r.cf, XffFirstEntry(r.xff), r.xreal, r.peer>>)

\* C2: the address a response reports in `query` is the first non-empty
\* value in the order ip parameter, CF-Connecting-IP, first trimmed
\* X-Forwarded-For entry, X-Real-IP, peer address ("none" when all are
\* empty): an empty earlier source never hides a later non-empty one.
C2_CandidateIsFirstNonEmptySource ==
  LET ip == cleanIp(DocumentedCandidate(req.r))
  IN (req.served /\ resp.http = 200)
     => resp.query = (IF Truthy(ip) THEN ip ELSE Str_none)

DigitValue(c) ==
  CASE c = "0" -> 0 [] c = "1" -> 1 [] c = "2" -> 2 [] c = "3" -> 3 [] c = "4" -> 4
    [] c = "5" -> 5 [] c = "6" -> 6 [] c = "7" -> 7 [] c = "8" -> 8 [] c = "9" -> 9

RECURSIVE DecimalValue(_)
DecimalValue(s) ==
  IF s = <<>> THEN 0
  ELSE 10 * DecimalValue(SubSeq(s, 1, Len(s) - 1)) + DigitValue(s[Len(s)])

LowerHex(c) ==
  CASE c = "A" -> "a" [] c = "B" -> "b" [] c = "C" -> "c" [] c = "D" -> "d"
    [] c = "E" -> "e" [] c = "F" -> "f" [] OTHER -> c

\* README, "Rejected": 10.0.0.0/8, 172.16.0.0/12, 192.168.0.0/16, 127.0.0.1,
\* ::1, 169.254.0.0/16, fe80::/10, fc00::/7 (of which fd00::/8 is a part),
\* for an address ip that is syntactically valid.
ReadmeRejected(ip) ==
  IF MatchesIpv4Regex(ip)
  THEN LET o == Split(ip, ".")
           a == DecimalValue(o[1])
           b == DecimalValue(o[2])
       IN \/ a = 10
          \/ a = 172 /\ b \in 16..31
          \/ a = 192 /\ b = 168
          \/ a = 169 /\ b = 254
          \/ a = 127 /\ b = 0 /\ DecimalValue(o[3]) = 0 /\ DecimalValue(o[4]) = 1
  ELSE LET g == Split(ip, ":")[1]
       IN \/ ip = <<":", ":", "1">>
          \/ /\ Len(g) = 4
             /\ LowerHex(g[1]) = "f"
             /\ \/ LowerHex(g[2]) = "e" /\ LowerHex(g[3]) \in {"8", "9", "a", "b"}
                \/ LowerHex(g[2]) \in {"c", "d"}

\* The response carries no field of a database record.
NoLookupResult(p) ==
  /\ p.country = Undef /\ p.countryCode = Undef /\ p.region = Undef
  /\ p.regionName = Undef /\ p.city = Undef /\ p.zip = Undef
  /\ p.lat = <<>> /\ p.lon = <<>> /\ p.timezone = Undef
  /\ p.as = Undef /\ p.isp = Undef /\ p.org = Undef

\* C3: a syntactically valid address in one of the ranges the README lists
\* as rejected is answered with status fail and without any lookup result,
\* whatever handles are installed.
C3_ReadmeRejectedNeverLocated ==
  (/\ req.served
   /\ isValidIp(CandidateOf(req.r))
   /\ ReadmeRejected(CandidateOf(req.r))
   /\ resp.http = 200)
  => resp.status = "fail" /\ NoLookupResult(resp)

\* Lines 236: the address as it was received, before cleanIp.
RawCandidate(r) == OrElse(r.qip, getClientIp(r))

\* The contract of the input errors for request q answered by p, where
\* `echoed` is what an Invalid response reports back: Invalid, private and
\* not-found requests get HTTP 200 with status fail and their message, and
\* HTTP 500 with status error is given exactly when a lookup throws.
InputErrorContract(q, p, echoed) ==
  LET ip == CandidateOf(q.r)
      threw == q.cityGet.kind = "throws" \/ q.asnGet.kind = "throws"
      nothingFound == q.cityGet.kind # "record" /\ q.asnGet.kind # "record"
  IN /\ p.http \in {200, 500}
     /\ p.http = 500 <=> threw
     /\ p.http = 500 => p.status = "error" /\ p.message = MsgInternal
     /\ ~isValidIp(ip) =>
          /\ p.http = 200 /\ p.status = "fail" /\ p.message = MsgInvalid
          /\ p.query = (IF Truthy(echoed) THEN echoed ELSE Str_none)
     /\ isValidIp(ip) /\ isPrivateIp(ip) =>
          p.http = 200 /\ p.status = "fail" /\ p.message = MsgPrivate
     /\ ReachedLookups(q) /\ ~threw /\ nothingFound =>
          p.http = 200 /\ p.status = "fail" /\ p.message \in {MsgNotLoaded, MsgNoData}

C5_NotLoadedMessage ==
  LET ip == CandidateOf(req.r)
  IN req.served =>
       /\ (ReachedLookups(req) /\ req.cityHandle = Null /\ req.asnHandle = Null)
            => resp.status = "fail" /\ resp.message = MsgNotLoaded
       /\ ~isValidIp(ip) => resp.status = "fail" /\ resp.message = MsgInvalid
       /\ (isValidIp(ip) /\ isPrivateIp(ip))
            => resp.status = "fail" /\ resp.message = MsgPrivate

\* A valid public address was queried while no database was loaded.
C5_Witness ==
  /\ req.served
  /\ req.r.qip = Ip_8_8_8_8
  /\ req.cityHandle = Null /\ req.asnHandle = Null
  /\ resp.message = MsgNotLoaded

(***************************************************************************)
(* Properties of the refresh choreography                                  *)
(***************************************************************************)

\* C6: a downloadDatabase call that returns any outcome but Downloaded
\* leaves the canonical file of its kind as it was before the step that
\* ended the call, and leaves both handles as they were.
C6_FailedRefreshChangesNothing ==
  [][returned'.outcome \notin {"none", "Downloaded"} =>
       /\ canon'[returned'.kind] = canon[returned'.kind]
       /\ UNCHANGED handleVars]_vars

\* C7: a handle that is set is never replaced by null, an installed handle
\* is always that of one complete build, and a request is answered in one
\* step from the two handles installed at that moment, which the step
\* leaves installed: the one before a swap or the one after it.
C7_LookupsSeeOneInstalledHandle ==
  [][/\ cityLookup # Null => cityLookup' # Null
     /\ asnLookup # Null => asnLookup' # Null
     /\ cityLookup' \in Versions \cup {Null}
     /\ asnLookup' \in Versions \cup {Null}
     /\ req' # req =>
          /\ req'.cityHandle = cityLookup /\ req'.asnHandle = asnLookup
          /\ UNCHANGED handleVars
          /\ resp' = LocationResponse(req'.r, req'.cityHandle, req'.asnHandle,
                                      req'.cityGet, req'.asnGet)
          /\ req'.cityHandle # Null => req'.cityGet.kind # "skipped"
          /\ req'.asnHandle # Null => req'.asnGet.kind # "skipped"]_vars

\* A request was answered in the middle of a reopen pass of a scheduled
\* run: from the City handle of the new build and the ASN handle of the old
\* one, whose file has already been replaced.
C7_Witness ==
  /\ pc[1] = "open_asn"
  /\ req.served
  /\ req.cityHandle = "v2" /\ cityLookup = "v2"
  /\ req.asnHandle = "v1" /\ asnLookup = "v1"
  /\ canon["ASN"] = "v2"
  /\ resp.status = "success"

\* C8: when nothing fails and the data directory starts with whole files,
\* then once every scheduled run has returned, whether or not runs
\* overlapped, each canonical file is a complete database file: the one
\* that was there or one of a downloaded archive.
C8_OverlappingRefreshesKeepCanonicalFileWhole ==
  (\A p \in TickProcs : pc[p] = "done") => \A k \in Kinds : canon[k] \in Versions

\* C9: a scheduled run calls downloadDatabase for City and then for ASN;
\* if one of the two returned Downloaded it goes on to reopen, and the
\* reopen pass opens the City file and then the ASN file; if neither did,
\* the run ends there with both handles as they were.
C9_TickRefreshesBothThenReopensBoth ==
  [][\A p \in TickProcs :
       /\ (pc[p] = "idle" /\ pc'[p] # "idle") => pc'[p] = "upd_city"
       /\ (pc[p] = "upd_city" /\ pc'[p] # "upd_city") =>
            pc'[p] = "upd_asn" /\ returned'.proc = p /\ returned'.kind = "City"
       /\ (pc[p] = "upd_asn" /\ pc'[p] # "upd_asn") =>
            /\ returned'.proc = p /\ returned'.kind = "ASN"
            /\ pc'[p] = (IF cityUpdated[p] \/ returned'.outcome = "Downloaded"
                         THEN "init_city" ELSE "done")
            /\ UNCHANGED handleVars
       /\ (pc[p] = "open_city" /\ pc'[p] # "open_city") => pc'[p] = "open_asn"]_vars

C11_CleanupFailureAfterCopyStillDownloaded ==
  [][(/\ returned'.proc # NoOpener
      /\ canon'[returned'.kind] # canon[returned'.kind]
      /\ canon'[returned'.kind] \in Versions) =>
       /\ returned'.outcome = "Downloaded"
       /\ pc[returned'.proc] = "upd_asn" => pc'[returned'.proc] = "init_city"]_vars

\* C12: in a pass of initDatabases, at startup or in a scheduled run, an
\* open that fails leaves the handle of its own kind as it was and nothing
\* else: after the City open, failed or not, the pass goes on to the ASN
\* open, and the ASN open, failed or not, leaves the City handle alone; an
\* open that succeeds installs the handle of the file it opened.
C12_OpenFailureFatalOnlyToItsKind ==
  [][\A p \in Procs :
       /\ (pc[p] = "open_city" /\ pc'[p] # "open_city") =>
            /\ pc'[p] = "open_asn"
            /\ asnLookup' = asnLookup
            /\ cityLookup' \in {cityLookup, canon["City"]}
            /\ canon["City"] = Corrupt => cityLookup' = cityLookup
       /\ (pc[p] = "open_asn" /\ pc'[p] # "open_asn") =>
            /\ cityLookup' = cityLookup
            /\ asnLookup' \in {asnLookup, canon["ASN"]}
            /\ canon["ASN"] = Corrupt => asnLookup' = asnLookup]_vars

\* C13: a downloadDatabase call returns Downloaded only when its last step
\* found an extracted directory of its kind and copied the database inside
\* it over the canonical path; when no such directory or database is
\* found, the outcome is another one and a scheduled run whose City call
\* did not return Downloaded ends without a reopen pass.
C13_DownloadedOnlyIfDatabaseCopied ==
  [][returned'.proc # NoOpener =>
       LET k == returned'.kind
           p == returned'.proc
           dirs == LocatedDirs(tarFile[k], exDir[k])
       IN /\ returned'.outcome = "Downloaded" =>
               \E d \in dirs : canon'[k] = ContentOf(d)
          /\ (dl[p] = "extract" /\ dirs = {}) =>
               /\ returned'.outcome # "Downloaded"
               /\ (pc[p] = "upd_asn" /\ ~cityUpdated[p]) => pc'[p] = "done"]_vars

====
